---- MODULE Spec2Model ----
(***************************************************************************)
(* Model of the two converters of image_2_pdf:                             *)
(*   variant "svg" : src/image_2_pdf.py  (SVGToPDFConverter, 20pt margin)  *)
(*   variant "img" : src/img2pdf_v2.py   (ImageToPDFConverter, no margin)  *)
(* and of the MainWindow handlers that start a conversion and edit the     *)
(* file list.                                                              *)
(*                                                                         *)
(* Lengths are exact rationals [n, d] (d > 0, lowest terms); the source    *)
(* computes them in binary floating point, so equalities proved here hold  *)
(* in the source up to rounding.                                           *)
(***************************************************************************)
EXTENDS Integers, Sequences, FiniteSets, TLC

VARIABLES
    variant,             \* which of the two source files is running
    mw_files,            \* MainWindow.svg_files / image_files (contents)
    shared,              \* TRUE while MainWindow's list object is the worker's
    convert_btn_enabled, \* MainWindow.convert_btn.isEnabled()
    active,              \* worker threads started whose completion is unhandled
    runs,                \* conversions started so far
    start_files,         \* history: the list as it was when convert_files ran
    files,               \* converter.svg_files / image_files (contents)
    images_per_page,     \* converter.images_per_page
    page_size,           \* converter.page_size (catalogue name)
    high_quality,        \* converter.high_quality
    pc,                  \* position of the worker thread
    total_files,         \* local total_files
    files_processed,     \* local files_processed
    page_num,            \* loop variable of the outer for
    page_files,          \* local page_files (the slice of the batch)
    i,                   \* loop variable of the inner for
    canvas,              \* the document writer c: [st, page]
    trace,               \* signals emitted and writer calls made, in order
    attempted,           \* history: files the inner loop body ran for
    placed               \* result of the last stand-alone placement

vars == <<variant, mw_files, shared, convert_btn_enabled, active, runs,
          start_files, files, images_per_page, page_size, high_quality, pc,
          total_files, files_processed, page_num, page_files, i, canvas,
          trace, attempted, placed>>

uiVars == <<mw_files, shared, convert_btn_enabled, active, runs, start_files>>
optVars == <<images_per_page, page_size, high_quality>>
loopVars == <<total_files, files_processed, page_num, page_files, i>>

----------------------------------------------------------------------------
(* Bounds of the model *)

MaxFiles == 4      \* longest file list handed to a converter
MaxRuns == 2       \* conversions started in one session
MaxAdd == 1        \* most paths returned by one file dialog

----------------------------------------------------------------------------
(* Exact rational arithmetic *)

\* Bound variables hold values, so an operand is evaluated once:
\* The(S) is the element of a singleton built with \in
The(S) == CHOOSE r \in S : TRUE

Abs(a) == IF a < 0 THEN -a ELSE a

RECURSIVE Gcd(_, _)
Gcd(a, b) == IF b = 0 THEN a ELSE The({Gcd(b, r) : r \in {a % b}})

Norm(n, d) ==
    The({[n |-> (IF d < 0 THEN -1 ELSE 1) * (n \div g),
          d |-> (IF d < 0 THEN -1 ELSE 1) * (d \div g)] :
            g \in {Gcd(Abs(n), Abs(d))}})

R(k) == [n |-> k, d |-> 1]
Lcm(a, b) == (a \div Gcd(a, b)) * b
RAdd(x, y) ==
    The({The({Norm(a.n * (l \div a.d) + b.n * (l \div b.d), l) :
                l \in {Lcm(a.d, b.d)}}) : a \in {x}, b \in {y}})
RSub(x, y) ==
    The({The({Norm(a.n * (l \div a.d) - b.n * (l \div b.d), l) :
                l \in {Lcm(a.d, b.d)}}) : a \in {x}, b \in {y}})
RMul(x, y) ==
    The({The({Norm(p.n * q.n, p.d * q.d) :
                p \in {Norm(a.n, b.d)}, q \in {Norm(b.n, a.d)}}) :
            a \in {x}, b \in {y}})
RDiv(x, y) == The({RMul(x, [n |-> b.d, d |-> b.n]) : b \in {y}})
RLeq(x, y) ==
    \E a \in {x}, b \in {y} :
        \E l \in {Lcm(a.d, b.d)} : a.n * (l \div a.d) <= b.n * (l \div b.d)
RLess(x, y) == ~RLeq(y, x)
RMin(x, y) == IF RLeq(x, y) THEN x ELSE y
RMax(x, y) == IF RLeq(y, x) THEN x ELSE y
RZero(x) == x.n = 0

----------------------------------------------------------------------------
(* reportlab.lib.pagesizes, in points: mm = 72/25.4 = 360/127, inch = 72 *)

PageNames == {"A4", "A3", "A2", "A1", "A0", "letter", "legal"}

Mm(k) == Norm(k * 360, 127)

PageWidth(p) ==
    CASE p = "A4" -> Mm(210) [] p = "A3" -> Mm(297) [] p = "A2" -> Mm(420)
      [] p = "A1" -> Mm(594) [] p = "A0" -> Mm(841)
      [] p = "letter" -> R(612) [] p = "legal" -> R(612)

PageHeight(p) ==
    CASE p = "A4" -> Mm(297) [] p = "A3" -> Mm(420) [] p = "A2" -> Mm(594)
      [] p = "A1" -> Mm(841) [] p = "A0" -> Mm(1189)
      [] p = "letter" -> R(792) [] p = "legal" -> R(1008)

----------------------------------------------------------------------------
(* Geometry of the 3 x 3 grid *)

cols == 3
rows == 3
MinImagesPerPage == 1
MaxImagesPerPage == 12
DefaultImagesPerPage == 9

\* margin = 20 in the SVG converter; the image converter uses the whole page
Margin(v) == IF v = "svg" THEN R(20) ELSE R(0)
\* the padding subtracted from the cell before fitting (10 in the SVG converter)
Padding(v) == IF v = "svg" THEN R(10) ELSE R(0)

CellWidth(v, p) ==
    RDiv(RSub(PageWidth(p), RMul(R(2), Margin(v))), R(cols))
CellHeight(v, p) ==
    RDiv(RSub(PageHeight(p), RMul(R(2), Margin(v))), R(rows))

SlotRow(s) == s \div cols
SlotCol(s) == s % cols

\* mutant: the column offset leaves the margin out
CellXNoMargin(v, p, s) == RMul(R(SlotCol(s)), CellWidth(v, p))

\* x = margin + col * cell_width
CellX(v, p, s) == RAdd(Margin(v), RMul(R(SlotCol(s)), CellWidth(v, p)))
\* y = page_height - margin - (row + 1) * cell_height
CellY(v, p, s) ==
    RSub(RSub(PageHeight(p), Margin(v)),
         RMul(R(SlotRow(s) + 1), CellHeight(v, p)))

\* the intrinsic size used for fitting: a zero or absent width or height
\* is replaced by the cell (less the padding)
IntrinsicW(v, p, w, h) ==
    IF w = 0 \/ h = 0 THEN RSub(CellWidth(v, p), Padding(v)) ELSE R(w)
IntrinsicH(v, p, w, h) ==
    IF w = 0 \/ h = 0 THEN RSub(CellHeight(v, p), Padding(v)) ELSE R(h)

ScaleX(v, p, iw) == RDiv(RSub(CellWidth(v, p), Padding(v)), iw)
ScaleY(v, p, ih) == RDiv(RSub(CellHeight(v, p), Padding(v)), ih)

\* mutant: the larger ratio, which fills the cell and crops
FitScaleFill(v, p, iw, ih) == RMax(ScaleX(v, p, iw), ScaleY(v, p, ih))

FitScale(v, p, iw, ih) == RMin(ScaleX(v, p, iw), ScaleY(v, p, ih))

\* if self.high_quality: max_scale = min(2.0, scale); scale = max(scale, max_scale)
\* (only in the SVG converter)
Upscale(v, hq, scale) ==
    IF v = "svg" /\ hq THEN RMax(scale, RMin(R(2), scale)) ELSE scale

\* placement of an image of intrinsic size (iw, ih) in slot s
Placement(v, hq, p, s, iw, ih) ==
    LET scale == Upscale(v, hq, FitScale(v, p, iw, ih))
        sw == RMul(iw, scale)
        sh == RMul(ih, scale)
    IN  [slot |-> s, row |-> SlotRow(s), col |-> SlotCol(s),
         iw |-> iw, ih |-> ih, scale |-> scale,
         sw |-> sw, sh |-> sh,
         x |-> RAdd(CellX(v, p, s), RDiv(RSub(CellWidth(v, p), sw), R(2))),
         y |-> RAdd(CellY(v, p, s), RDiv(RSub(CellHeight(v, p), sh), R(2)))]

NoPlacement ==
    [slot |-> -1, row |-> -1, col |-> -1, iw |-> R(0), ih |-> R(0),
     scale |-> R(0), sw |-> R(0), sh |-> R(0), x |-> R(0), y |-> R(0)]

NotPlaced ==
    [st |-> "none", kind |-> "svg", w |-> 0, h |-> 0, pl |-> NoPlacement]

----------------------------------------------------------------------------
(* The files a list can name.  svg is what svg2rlg does with the file       *)
(* ("ok": a drawing, "none": it returns None, "raise": it raises), img is   *)
(* what ImageReader does, w and h are the intrinsic size (0: zero or        *)
(* absent), draw is what rendering onto the canvas does.                    *)

Disk ==
    <<[name |-> "a.svg", ext |-> "svg", svg |-> "ok", img |-> "raise",
       w |-> 200, h |-> 100, draw |-> "ok"],
      [name |-> "b.svg", ext |-> "svg", svg |-> "raise", img |-> "raise",
       w |-> 0, h |-> 0, draw |-> "ok"],
      [name |-> "c.png", ext |-> "png", svg |-> "none", img |-> "ok",
       w |-> 300, h |-> 400, draw |-> "ok"],
      [name |-> "d.txt", ext |-> "txt", svg |-> "none", img |-> "raise",
       w |-> 0, h |-> 0, draw |-> "ok"],
      [name |-> "f.svg", ext |-> "svg", svg |-> "ok", img |-> "raise",
       w |-> 50, h |-> 80, draw |-> "raise"]>>

Paths == DOMAIN Disk

RasterExts == {"png", "jpg", "jpeg", "webp"}

----------------------------------------------------------------------------
(* Signals and writer calls, in the order the worker issues them.          *)
(* k (the 0-based list index of the entry) is a label, not data the signal *)
(* carries.                                                                 *)

Ev(op, k, file, val) ==
    [op |-> op, k |-> k, file |-> file, val |-> val, page |-> 0,
     pl |-> NoPlacement]
DrawEv(k, file, page, pl) ==
    [op |-> "draw", k |-> k, file |-> file, val |-> 0, page |-> page,
     pl |-> pl]

\* progress = int((files_processed / total_files) * 100); the float
\* expression equals the integer quotient for every total_files <= 9
Progress(processed, total) == (processed * 100) \div total

\* scale_x = cell_width / img_width with a raster size of 0: ZeroDivisionError
RasterZeroDiv(w, h) == w = 0 \/ h = 0

\* what the body of the inner loop does with file f
SvgOutcome(f) ==
    CASE Disk[f].svg = "raise" -> "error"
      [] Disk[f].svg = "none" -> "nodrawing"
      [] OTHER -> IF Disk[f].draw = "raise" THEN "error" ELSE "drawn"

ImgOutcome(f) ==
    CASE Disk[f].ext = "svg" ->
           IF Disk[f].svg = "raise" THEN "error"
           ELSE IF Disk[f].svg = "none" THEN "error"   \* 0, 0: division by zero
           ELSE IF Disk[f].draw = "raise" THEN "error" ELSE "drawn"
      [] Disk[f].ext \in RasterExts ->
           IF Disk[f].img = "raise" THEN "error"
           ELSE IF RasterZeroDiv(Disk[f].w, Disk[f].h) THEN "error"
           ELSE IF Disk[f].draw = "raise" THEN "error" ELSE "drawn"
      [] OTHER -> "skipped"

\* mutant: the SVG converter swallows an exception without reporting it
OutcomeUnreported(v, f) ==
    IF v = "svg"
    THEN IF SvgOutcome(f) = "error" THEN "nodrawing" ELSE SvgOutcome(f)
    ELSE ImgOutcome(f)

Outcome(v, f) == IF v = "svg" THEN SvgOutcome(f) ELSE ImgOutcome(f)

\* the size, scale and position the loop body computes for file f in slot s
FilePlacement(v, hq, p, s, f) ==
    Placement(v, hq, p, s, IntrinsicW(v, p, Disk[f].w, Disk[f].h),
              IntrinsicH(v, p, Disk[f].w, Disk[f].h))

\* FilePlacement tabulated, so that each placement is computed once
PlacementTable ==
    [v \in {"svg", "img"}, hq \in BOOLEAN, p \in PageNames,
     s \in 0..(MaxImagesPerPage - 1), f \in Paths |->
        FilePlacement(v, hq, p, s, f)]

\* the try block: what is appended to the trace for entry k = file f
BodyEvents(v, hq, p, k, s, f, page) ==
    LET o == Outcome(v, f)
    IN  CASE o = "drawn" ->
               <<DrawEv(k, f, page, PlacementTable[v, hq, p, s, f]),
                 Ev("status_ok", k, f, 0)>>
          [] o = "error" -> <<Ev("status_err", k, f, 0)>>
          [] o = "skipped" -> <<Ev("status_skip", k, f, 0)>>
          [] OTHER -> <<>>

\* mutant: the counter advances for every entry, failed and skipped too
CountedAll(v, f) == TRUE

\* the except and else branches end in continue, before the counter
Counted(v, f) == Outcome(v, f) \in {"drawn", "nodrawing"}

\* mutant: the slice ends one entry late, so batches overlap
SliceOverlap(list, from, n) ==
    [j \in 1..(IF from >= Len(list) THEN 0
               ELSE IF from + n + 1 > Len(list) THEN Len(list) - from
               ELSE n + 1)
        |-> list[from + j]]

\* self.svg_files[page_num:page_num + self.images_per_page]
Slice(list, from, n) ==
    [j \in 1..(IF from >= Len(list) THEN 0
               ELSE IF from + n > Len(list) THEN Len(list) - from ELSE n)
        |-> list[from + j]]

----------------------------------------------------------------------------
(* The worker thread: run() and the conversion routine                     *)

\* mutant: run() reports success whatever happened
FinishedAlwaysTrue(ok) == Ev("finished", -1, 0, 1)

\* finished_signal.emit(True, ...) after the routine returned, (False, ...)
\* from the except clause
Finished(ok) == Ev("finished", -1, 0, IF ok THEN 1 ELSE 0)

\* mutant: the emptiness check is missing
IsEmptyInputUnchecked(list) == FALSE

\* if not self.svg_files: raise ValueError(...)
IsEmptyInput(list) == list = <<>>

\* mutant: a new page is started before every batch, the first included
NeedsNewPageAlways(pn) == TRUE

\* if page_num > 0: c.showPage()
NeedsNewPage(pn) == pn > 0

\* mutant: the document is never saved
SaveEventsUnsaved(ok) == <<Finished(ok)>>

\* c.save() returning or raising, and the signal run() emits after it
SaveEvents(ok) == <<Ev("save", -1, 0, IF ok THEN 1 ELSE 0), Finished(ok)>>

\* run() enters the routine: if not self.svg_files: raise ValueError
EnterRoutine ==
    /\ pc = "run"
    /\ IF IsEmptyInput(files)
       THEN /\ trace' = Append(trace, Finished(FALSE))
            /\ pc' = "finished"
       ELSE /\ pc' = "canvas"
            /\ UNCHANGED trace
    /\ UNCHANGED <<variant, uiVars, files, optVars, loopVars, canvas,
                   attempted, placed>>

\* c = canvas.Canvas(...); the constructor may raise
CreateCanvas ==
    /\ pc = "canvas"
    /\ \E ok \in BOOLEAN :
         IF ok
         THEN /\ canvas' = [st |-> "open", page |-> 1]
              /\ pc' = "setup"
              /\ UNCHANGED trace
         ELSE /\ UNCHANGED canvas
              /\ trace' = Append(trace, Finished(FALSE))
              /\ pc' = "finished"
    /\ UNCHANGED <<variant, uiVars, files, optVars, loopVars, attempted,
                   placed>>

\* total_files = len(...); files_processed = 0; the image converter warns
\* when images_per_page is not cols * rows
Setup ==
    /\ pc = "setup"
    /\ total_files' = Len(files)
    /\ files_processed' = 0
    /\ page_num' = 0
    /\ trace' = IF variant = "img" /\ images_per_page # cols * rows
                THEN Append(trace, Ev("status_warn", -1, 0, 0))
                ELSE trace
    /\ pc' = "page"
    /\ UNCHANGED <<variant, uiVars, files, optVars, page_files, i, canvas,
                   attempted, placed>>

\* one iteration head of: for page_num in range(0, total_files, images_per_page)
StartPage ==
    /\ pc = "page"
    /\ page_num < total_files
    /\ LET batch == Slice(files, page_num, images_per_page)
           st == Ev("status_page", -1, 0, page_num \div images_per_page + 1)
       IN  /\ page_files' = batch
           /\ trace' = IF NeedsNewPage(page_num)
                       THEN trace \o <<st, Ev("newPage", -1, 0, 0)>>
                       ELSE Append(trace, st)
           /\ canvas' = IF NeedsNewPage(page_num)
                        THEN [canvas EXCEPT !.page = @ + 1]
                        ELSE canvas
           /\ i' = 0
           /\ IF batch = <<>>
              THEN /\ page_num' = page_num + images_per_page
                   /\ pc' = "page"
              ELSE /\ UNCHANGED page_num
                   /\ pc' = "image"
    /\ UNCHANGED <<variant, uiVars, files, optVars, total_files,
                   files_processed, attempted, placed>>

\* one iteration of: for i, svg_file in enumerate(page_files)
ProcessImage ==
    /\ pc = "image"
    /\ i < Len(page_files)
    /\ LET f == page_files[i + 1]
           k == page_num + i
           body == BodyEvents(variant, high_quality, page_size, k, i, f,
                              canvas.page)
           n == IF Counted(variant, f) THEN files_processed + 1
                ELSE files_processed
       IN  /\ files_processed' = n
           /\ trace' = IF Counted(variant, f)
                       THEN trace \o body
                              \o <<Ev("progress", k, f,
                                      Progress(n, total_files))>>
                       ELSE trace \o body
           /\ attempted' = Append(attempted, f)
    /\ i' = i + 1
    /\ IF i + 1 >= Len(page_files)
       THEN /\ page_num' = page_num + images_per_page
            /\ pc' = "page"
       ELSE /\ UNCHANGED page_num
            /\ pc' = "image"
    /\ UNCHANGED <<variant, uiVars, files, optVars, total_files, page_files,
                   canvas, placed>>

\* c.save(), then run() emits finished_signal
Save ==
    /\ pc = "page"
    /\ page_num >= total_files
    /\ \E ok \in BOOLEAN :
         /\ canvas' = [canvas EXCEPT !.st = IF ok THEN "saved" ELSE "failed"]
         /\ trace' = trace \o SaveEvents(ok)
    /\ pc' = "finished"
    /\ UNCHANGED <<variant, uiVars, files, optVars, loopVars, attempted,
                   placed>>

----------------------------------------------------------------------------
(* MainWindow: the handlers of the buttons and of finished_signal          *)

\* mutant: the list is kept as extended, duplicates included
DedupNone(list) == list

\* list(dict.fromkeys(list)): first occurrences, in order
RECURSIVE Dedup(_)
Dedup(list) ==
    IF list = <<>> THEN <<>>
    ELSE LET front == Dedup(SubSeq(list, 1, Len(list) - 1))
             last == list[Len(list)]
         IN  IF \E j \in 1..Len(front) : front[j] = last
             THEN front ELSE Append(front, last)

\* what a file dialog or a folder glob can return: distinct paths, in order
DialogPaths == {1, 2}
Picked ==
    {s \in UNION {[1..n -> DialogPaths] : n \in 1..MaxAdd} :
        \A a, b \in DOMAIN s : a # b => s[a] # s[b]}

\* select_files / select_folder: extend in place, then update_file_list
\* rebinds MainWindow's attribute to a fresh, deduplicated list
SelectFilesPicked(picked) ==
    /\ runs <= MaxRuns
    /\ mw_files' = Dedup(mw_files \o picked)
    /\ files' = IF shared THEN files \o picked ELSE files
    /\ shared' = FALSE
    /\ UNCHANGED <<variant, convert_btn_enabled, active, runs, start_files,
                   optVars, pc, loopVars, canvas, trace, attempted, placed>>

SelectFiles == \E picked \in Picked : SelectFilesPicked(picked)

\* clear_files: clear in place, then update_file_list rebinds
ClearFiles ==
    /\ runs <= MaxRuns
    /\ mw_files # <<>> \/ shared
    /\ mw_files' = <<>>
    /\ files' = IF shared THEN <<>> ELSE files
    /\ shared' = FALSE
    /\ UNCHANGED <<variant, convert_btn_enabled, active, runs, start_files,
                   optVars, pc, loopVars, canvas, trace, attempted, placed>>

\* the values the option widgets can hold when the button is pressed
SpinValues == {1, DefaultImagesPerPage}

\* mutant: the button stays enabled while the worker runs
BtnWhileRunningEnabled == TRUE

\* self.convert_btn.setEnabled(False)
BtnWhileRunning == FALSE

\* convert_files: returns early on an empty list; otherwise disables the
\* button and starts a converter thread on MainWindow's own list object
ConvertFiles ==
    /\ convert_btn_enabled
    /\ runs < MaxRuns
    /\ mw_files # <<>>
    /\ convert_btn_enabled' = BtnWhileRunning
    /\ active' = active + 1
    /\ runs' = runs + 1
    /\ files' = mw_files
    /\ shared' = TRUE
    /\ start_files' = mw_files
    /\ \E n \in SpinValues : images_per_page' = n
    /\ page_size' = "A4"
    /\ high_quality' = TRUE
    /\ pc' = "run"
    /\ total_files' = 0
    /\ files_processed' = 0
    /\ page_num' = 0
    /\ page_files' = <<>>
    /\ i' = 0
    /\ canvas' = [st |-> "none", page |-> 0]
    /\ trace' = <<>>
    /\ attempted' = <<>>
    /\ UNCHANGED <<variant, mw_files, placed>>

\* conversion_finished: the slot run by the queued finished_signal
ConversionFinished ==
    /\ pc = "finished"
    /\ active > 0
    /\ convert_btn_enabled' = TRUE
    /\ active' = active - 1
    /\ pc' = "idle"
    /\ UNCHANGED <<variant, mw_files, shared, runs, start_files, files,
                   optVars, loopVars, canvas, trace, attempted, placed>>

----------------------------------------------------------------------------
(* Specifications *)

NoRun ==
    /\ pc = "idle"
    /\ total_files = 0
    /\ files_processed = 0
    /\ page_num = 0
    /\ page_files = <<>>
    /\ i = 0
    /\ canvas = [st |-> "none", page |-> 0]
    /\ trace = <<>>
    /\ attempted = <<>>
    /\ placed = NotPlaced

\* the application after MainWindow.__init__
Init ==
    /\ variant \in {"svg", "img"}
    /\ mw_files = <<>>
    /\ shared = FALSE
    /\ convert_btn_enabled = TRUE
    /\ active = 0
    /\ runs = 0
    /\ start_files = <<>>
    /\ files = <<>>
    /\ images_per_page = DefaultImagesPerPage
    /\ page_size = "A4"
    /\ high_quality = TRUE
    /\ NoRun

Next ==
    \/ SelectFiles
    \/ ClearFiles
    \/ ConvertFiles
    \/ ConversionFinished
    \/ EnterRoutine
    \/ CreateCanvas
    \/ Setup
    \/ StartPage
    \/ ProcessImage
    \/ Save

Spec == Init /\ [][Next]_vars

\* one converter thread on a list nothing else touches
FileLists == UNION {[1..n -> Paths] : n \in 0..MaxFiles}

InitRun ==
    /\ variant \in {"svg", "img"}
    /\ files \in FileLists
    /\ start_files = files
    /\ mw_files = <<>>
    /\ shared = FALSE
    /\ convert_btn_enabled = FALSE
    /\ active = 1
    /\ runs = 1
    /\ images_per_page \in MinImagesPerPage..MaxImagesPerPage
    /\ page_size = "A4"
    /\ high_quality = TRUE
    /\ total_files = 0
    /\ files_processed = 0
    /\ page_num = 0
    /\ page_files = <<>>
    /\ i = 0
    /\ canvas = [st |-> "none", page |-> 0]
    /\ trace = <<>>
    /\ attempted = <<>>
    /\ placed = NotPlaced
    /\ pc = "run"

NextRun ==
    \/ EnterRoutine
    \/ CreateCanvas
    \/ Setup
    \/ StartPage
    \/ ProcessImage
    \/ Save

SpecRun == InitRun /\ [][NextRun]_vars

\* the placement computation alone, on a loaded image of any size
ImageSizes ==
    {<<200, 100>>, <<300, 400>>, <<50, 80>>, <<1, 1>>, <<3000, 2000>>,
     <<0, 0>>, <<120, 0>>}

InitGeom ==
    /\ variant \in {"svg", "img"}
    /\ mw_files = <<>>
    /\ shared = FALSE
    /\ convert_btn_enabled = FALSE
    /\ active = 1
    /\ runs = 1
    /\ start_files = <<>>
    /\ files = <<>>
    /\ images_per_page \in MinImagesPerPage..MaxImagesPerPage
    /\ page_size \in PageNames
    /\ high_quality \in BOOLEAN
    /\ NoRun

\* the size, scale and position computed for an image in slot s: the SVG
\* converter treats every file as a drawing; a drawing that svg2rlg returns
\* as None is passed over by the SVG converter and leaves the image
\* converter with the size 0, 0
PlaceImage ==
    /\ pc = "idle"
    /\ placed.st = "none"
    /\ \E s \in 0..(images_per_page - 1), sz \in ImageSizes,
          kind \in (IF variant = "svg" THEN {"svg"} ELSE {"svg", "raster"}),
          loaded \in BOOLEAN :
         LET w == sz[1]
             h == sz[2]
         IN  /\ ~loaded => (kind = "svg" /\ sz = <<0, 0>>)
             /\ placed' =
                  IF ~loaded
                  THEN [st |-> IF variant = "svg" THEN "nodrawing"
                               ELSE "zerodiv",
                        kind |-> kind, w |-> 0, h |-> 0, pl |-> NoPlacement]
                  ELSE IF kind = "raster" /\ RasterZeroDiv(w, h)
                  THEN [st |-> "zerodiv", kind |-> kind, w |-> w, h |-> h,
                        pl |-> NoPlacement]
                  ELSE [st |-> "drawn", kind |-> kind, w |-> w, h |-> h,
                        pl |-> Placement(variant, high_quality, page_size, s,
                                IntrinsicW(variant, page_size, w, h),
                                IntrinsicH(variant, page_size, w, h))]
    /\ UNCHANGED <<variant, uiVars, files, optVars, pc, loopVars, canvas,
                   trace, attempted>>

NextGeom == PlaceImage

SpecGeom == InitGeom /\ [][NextGeom]_vars

----------------------------------------------------------------------------
(* Reading the trace *)

Idx(op) == {j \in DOMAIN trace : trace[j].op = op}
IdxOf(op, k) == {j \in DOMAIN trace : trace[j].op = op /\ trace[j].k = k}
Entries == 0..(Len(files) - 1)
RunEnded == pc = "finished"
ReachedSave == RunEnded /\ Idx("save") # {}
Succeeded == RunEnded /\ trace[Len(trace)] = Finished(TRUE)
CeilDiv(a, b) == (a + b - 1) \div b

\* the entry's loader or its rendering raises
LoadOrDrawRaises(v, f) ==
    IF v = "svg"
    THEN Disk[f].svg = "raise" \/ (Disk[f].svg = "ok" /\ Disk[f].draw = "raise")
    ELSE \/ Disk[f].ext = "svg"
            /\ (Disk[f].svg = "raise"
                  \/ (Disk[f].svg = "ok" /\ Disk[f].draw = "raise"))
         \/ Disk[f].ext \in RasterExts
            /\ (Disk[f].img = "raise"
                  \/ (Disk[f].img = "ok" /\ Disk[f].draw = "raise"))

----------------------------------------------------------------------------
(* C1: a run on a non-empty list whose writer was constructed does not     *)
(* abort on entries whose load or draw raises: each such entry has exactly *)
(* one error status naming its file and no draw, every entry of the list   *)
(* is attempted, save is called once, and the completion event carries     *)
(* success unless save itself failed.                                      *)
C1_FailuresDoNotAbort ==
    (RunEnded /\ files # <<>> /\ canvas.st # "none") =>
        /\ \A k \in Entries :
             LoadOrDrawRaises(variant, files[k + 1]) =>
                /\ Cardinality(IdxOf("status_err", k)) = 1
                /\ \A j \in IdxOf("status_err", k) :
                     trace[j].file = files[k + 1]
                /\ IdxOf("draw", k) = {}
        /\ attempted = files
        /\ Cardinality(Idx("save")) = 1
        /\ (canvas.st = "saved" => trace[Len(trace)] = Finished(TRUE))

\* a successful run in which an entry failed and a later entry was drawn
C1_Witness ==
    /\ Succeeded
    /\ \E k1, k2 \in Entries :
         /\ k1 < k2
         /\ LoadOrDrawRaises(variant, files[k1 + 1])
         /\ IdxOf("status_err", k1) # {}
         /\ IdxOf("draw", k2) # {}

(* C2: when a run that processed all entries completes, the last progress  *)
(* value emitted is exactly 100.                                           *)
C2_LastProgressIs100 ==
    (Succeeded /\ attempted = files) =>
        /\ Idx("progress") # {}
        /\ \A j \in Idx("progress") :
             (\A j2 \in Idx("progress") : j2 <= j) => trace[j].val = 100

(* C3: a run on N entries that reaches save has invoked the writer's       *)
(* new-page operation ceil(N / images_per_page) - 1 times, so the document *)
(* has ceil(N / images_per_page) pages.                                    *)
C3_PageCount ==
    ReachedSave =>
        /\ Cardinality(Idx("newPage")) =
              CeilDiv(Len(files), images_per_page) - 1
        /\ canvas.page = CeilDiv(Len(files), images_per_page)

\* a run of several pages with a partial last batch and a failed entry
C3_Witness ==
    /\ ReachedSave
    /\ canvas.page >= 2
    /\ Len(files) % images_per_page # 0
    /\ Idx("status_err") # {}

(* C4: a run emits exactly one completion event and nothing after it; it   *)
(* carries success exactly when save returned, failure for every exception *)
(* of the routine; until it is emitted the worker is at a step it can take. *)
C4_OneCompletionLast ==
    /\ Cardinality(Idx("finished")) = (IF RunEnded THEN 1 ELSE 0)
    /\ RunEnded =>
         /\ trace[Len(trace)].op = "finished"
         /\ (trace[Len(trace)].val = 1) <=> (canvas.st = "saved")
         /\ (trace[Len(trace)].val = 0) <=>
               (files = <<>> \/ canvas.st \in {"none", "failed"})
    /\ ~RunEnded =>
         \/ pc \in {"run", "canvas", "setup", "page"}
         \/ pc = "image" /\ i < Len(page_files)

\* a run that ended in failure because save raised
C4_Witness ==
    /\ RunEnded
    /\ canvas.st = "failed"
    /\ trace[Len(trace)] = Finished(FALSE)
    /\ Idx("draw") # {}

(* C5: on an empty list the run ends with a failure completion event       *)
(* before the writer is constructed: the completion event is the only      *)
(* event, and no page, draw, new-page or save exists.                      *)
C5_EmptyInput ==
    (files = <<>> /\ pc # "run") =>
        /\ RunEnded
        /\ trace = <<Finished(FALSE)>>
        /\ canvas = [st |-> "none", page |-> 0]

C5_Witness == files = <<>> /\ RunEnded

C7_SlotAssignment ==
    /\ attempted = SubSeq(files, 1, Len(attempted))
    /\ ReachedSave => attempted = files
    /\ \A j \in DOMAIN trace :
         trace[j].k >= 0 =>
            /\ trace[j].k < Len(attempted)
            /\ trace[j].file = files[trace[j].k + 1]
    /\ \A j \in Idx("draw") :
         /\ trace[j].page = (trace[j].k \div images_per_page) + 1
         /\ trace[j].pl.slot = trace[j].k % images_per_page
         /\ trace[j].pl.row = trace[j].pl.slot \div 3
         /\ trace[j].pl.col = trace[j].pl.slot % 3
    /\ \A j1, j2 \in Idx("draw") :
         (j1 # j2 /\ trace[j1].page = trace[j2].page) =>
            <<trace[j1].pl.row, trace[j1].pl.col>> #
               <<trace[j2].pl.row, trace[j2].pl.col>>
    /\ pc = "image" =>
         /\ page_files # <<>>
         /\ page_num % images_per_page = 0
         /\ Len(attempted) = page_num + i
         /\ page_files =
               [j \in 1..Len(page_files) |-> files[page_num + j]]
         /\ page_num + Len(page_files) < Len(files) =>
               Len(page_files) = images_per_page
         /\ Len(page_files) <= images_per_page

\* an entry drawn in the second row after an entry of its batch was not drawn
C7_Witness ==
    /\ ReachedSave
    /\ \E j \in Idx("draw") :
         /\ trace[j].pl.row = 1
         /\ \E e \in Idx("status_err") \cup Idx("status_skip") :
              /\ e < j
              /\ trace[e].k \div images_per_page =
                    trace[j].k \div images_per_page

(* C8: a running conversion attempts exactly the list as it was when the   *)
(* conversion was started, whatever the user does to the list meanwhile:   *)
(* nothing added later is attempted, nothing is dropped, and the processed *)
(* count never exceeds the number of entries at the start.                 *)
C8_ListFixedAtStart ==
    /\ attempted = SubSeq(start_files, 1, Len(attempted))
    /\ files_processed <= Len(start_files)
    /\ Succeeded => attempted = start_files

(* C9: at most one conversion worker runs at a time: the convert button is *)
(* disabled from the start of a worker until its completion event has been *)
(* handled, and enabled again after every completion.                      *)
C9_OneWorker ==
    /\ active <= 1
    /\ pc # "idle" => (~convert_btn_enabled /\ active = 1)
    /\ pc = "idle" => (convert_btn_enabled /\ active = 0)

\* a second conversion is running after the first one was completed
C9_Witness ==
    /\ runs = 2
    /\ pc = "image"
    /\ active = 1

\* writer calls in the trace
WriterIdx == Idx("draw") \cup Idx("newPage") \cup Idx("save")
NewPagesBefore(j) == Cardinality({n \in Idx("newPage") : n < j})

(* C10: the writer goes Empty -> HasPage(n) -> Saved: new-page is invoked  *)
(* once at the start of every batch after the first and never before the   *)
(* first, every draw of batch K is made on page K, save is invoked once    *)
(* after the last draw, and no draw, new-page or save follows it.          *)
C10_WriterProtocol ==
    /\ Cardinality(Idx("save")) <= 1
    /\ \A j \in Idx("save") : \A w \in WriterIdx : w <= j
    /\ \A j \in Idx("draw") :
         /\ NewPagesBefore(j) = trace[j].k \div images_per_page
         /\ trace[j].page = (trace[j].k \div images_per_page) + 1
    /\ \A j \in Idx("status_page") :
         /\ NewPagesBefore(j + 2) = trace[j].val - 1
         /\ trace[j].val > 1 => (j < Len(trace) /\ trace[j + 1].op = "newPage")
         /\ trace[j].val = 1 => (j = Len(trace) \/ trace[j + 1].op # "newPage")
    /\ \A j \in Idx("newPage") : j > 1 /\ trace[j - 1].op = "status_page"
    /\ canvas.st = "none" => WriterIdx = {}
    /\ canvas.st = "open" =>
         /\ Idx("save") = {}
         /\ canvas.page = 1 + Cardinality(Idx("newPage"))
    /\ (RunEnded /\ canvas.st # "none") =>
         /\ Cardinality(Idx("save")) = 1
         /\ canvas.st \in {"saved", "failed"}

\* a saved document of two pages with draws on both
C10_Witness ==
    /\ Succeeded
    /\ \E j1, j2 \in Idx("draw") : trace[j1].page = 1 /\ trace[j2].page = 2

\* the entry's extension is neither .svg nor one of the raster extensions
Unsupported(f) == Disk[f].ext \notin (RasterExts \cup {"svg"})

(* C11: in the image converter an entry with an unsupported extension gets *)
(* exactly one skip status and no draw, the run goes on to the entries     *)
(* after it, and the entry is counted as processed: the counter advances   *)
(* and a progress event is emitted for it.                                 *)
C11_SkippedIsCounted ==
    variant = "img" =>
        /\ \A k \in 0..(Len(attempted) - 1) :
             Unsupported(attempted[k + 1]) =>
                /\ Cardinality(IdxOf("status_skip", k)) = 1
                /\ IdxOf("draw", k) = {}
                /\ Cardinality(IdxOf("progress", k)) = 1
        /\ ReachedSave => attempted = files
        /\ files_processed >=
              Cardinality({k \in 1..Len(attempted) : Unsupported(attempted[k])})

(* C12: every progress value emitted in a run is an integer in 0..100, the *)
(* emitted values never decrease, and 100 is not emitted before the last   *)
(* entry of the list has been processed.                                   *)
C12_ProgressRange ==
    /\ \A j \in Idx("progress") : trace[j].val \in 0..100
    /\ \A j1, j2 \in Idx("progress") :
         j1 < j2 => trace[j1].val <= trace[j2].val
    /\ \A j \in Idx("progress") :
         trace[j].val = 100 => trace[j].k = Len(files) - 1

\* list, then the paths of picked that the list does not hold yet, in order
RECURSIVE AppendNew(_, _)
AppendNew(list, picked) ==
    IF picked = <<>> THEN list
    ELSE AppendNew(IF \E j \in DOMAIN list : list[j] = Head(picked)
                   THEN list ELSE Append(list, Head(picked)),
                   Tail(picked))

(* C13: after any sequence of add-files, add-folder and clear the window's *)
(* list holds each path at most once, in the order of first occurrence: an *)
(* add appends the paths not yet in the list and nothing else, so adding a *)
(* path already present leaves the list unchanged, and clear empties it.   *)
C13_ListDeduplicated ==
    /\ [](\A a, b \in DOMAIN mw_files : a # b => mw_files[a] # mw_files[b])
    /\ [][/\ \A picked \in Picked :
               SelectFilesPicked(picked) =>
                  /\ mw_files' = AppendNew(mw_files, picked)
                  /\ (\A j \in DOMAIN picked :
                        \E m \in DOMAIN mw_files : mw_files[m] = picked[j])
                       => mw_files' = mw_files
          /\ ClearFiles => mw_files' = <<>>
          /\ mw_files' # mw_files => (ClearFiles \/ SelectFiles)]_vars

\* a.svg was added again while it was in the list: the list object the
\* worker still holds shows both adds, the window's list holds the path once
C13_Witness ==
    /\ mw_files = <<1>>
    /\ files = <<1, 1>>
    /\ ~shared

(* C14: in the SVG converter with high_quality set, whenever the fit scale *)
(* of a drawn image exceeds 1 the applied scale is at most 2, and the      *)
(* applied scale is never below the fit scale.                             *)
C14_UpscaleAtMostTwo ==
    (placed.st = "drawn" /\ variant = "svg" /\ high_quality
       /\ placed.w > 0 /\ placed.h > 0) =>
        LET cw == CellWidth(variant, page_size)
            ch == CellHeight(variant, page_size)
            fit == RMin(RDiv(RSub(cw, R(10)), R(placed.w)),
                        RDiv(RSub(ch, R(10)), R(placed.h)))
        IN  /\ RLess(R(1), fit) => RLeq(placed.pl.scale, R(2))
            /\ RLeq(fit, placed.pl.scale)

(* C15: a drawn image is centred in its cell on both axes:                 *)
(* x + scaled width / 2 = cell x + cell width / 2, and likewise for y,     *)
(* where the cell origin is (margin + col * cell width,                    *)
(* page height - margin - (row + 1) * cell height), with margin 20 in the  *)
(* SVG converter and 0 in the image converter.                             *)
C15_Centred ==
    placed.st = "drawn" =>
        LET margin == IF variant = "svg" THEN R(20) ELSE R(0)
            cw == RDiv(RSub(PageWidth(page_size), RMul(R(2), margin)), R(3))
            ch == RDiv(RSub(PageHeight(page_size), RMul(R(2), margin)), R(3))
            pl == placed.pl
            cx == RAdd(margin, RMul(R(pl.slot % 3), cw))
            cy == RSub(RSub(PageHeight(page_size), margin),
                       RMul(R((pl.slot \div 3) + 1), ch))
        IN  /\ RAdd(pl.x, RDiv(pl.sw, R(2))) = RAdd(cx, RDiv(cw, R(2)))
            /\ RAdd(pl.y, RDiv(pl.sh, R(2))) = RAdd(cy, RDiv(ch, R(2)))

\* a raster image, narrower than its cell, in the third row of the image
\* converter, and not in the first column
C15_Witness ==
    /\ placed.st = "drawn"
    /\ variant = "img"
    /\ placed.kind = "raster"
    /\ placed.pl.row = 2
    /\ placed.pl.col = 1
    /\ RLess(placed.pl.sw, CellWidth(variant, page_size))

(* C16: every entry, vector or raster, whose intrinsic width or height is  *)
(* zero or absent (a vector loader returning no drawing included) is given *)
(* the cell's width and height minus the padding as its size, so its scale *)
(* is 1 and it is drawn; no division by zero is reached.                   *)
C16_ZeroSizeFallback ==
    (placed.st # "none" /\ (placed.w = 0 \/ placed.h = 0)) =>
        LET pad == IF variant = "svg" THEN R(10) ELSE R(0)
        IN  /\ placed.st = "drawn"
            /\ placed.pl.iw = RSub(CellWidth(variant, page_size), pad)
            /\ placed.pl.ih = RSub(CellHeight(variant, page_size), pad)
            /\ placed.pl.scale = R(1)

\* every draw is followed by the status naming its file and then by the
\* progress event of the same entry
DrawThenStatusThenProgress ==
    \A j \in Idx("draw") :
        /\ j + 2 <= Len(trace)
        /\ trace[j + 1] = Ev("status_ok", trace[j].k, trace[j].file, 0)
        /\ trace[j + 2].op = "progress"
        /\ trace[j + 2].k = trace[j].k

AbsentDrawings ==
    {k \in 0..(Len(attempted) - 1) :
        variant = "svg" /\ Disk[attempted[k + 1]].svg = "none"}

C18_InsidePage ==
    placed.st = "drawn" =>
        LET m == IF variant = "svg" THEN R(20) ELSE R(0)
            pl == placed.pl
        IN  /\ RLeq(m, pl.x)
            /\ RLeq(RAdd(pl.x, pl.sw), RSub(PageWidth(page_size), m))
            /\ RLeq(m, pl.y)
            /\ RLeq(RAdd(pl.y, pl.sh), RSub(PageHeight(page_size), m))

====
